---- MODULE Spec2Model ----
(***************************************************************************)
(* network-enum-toolkit: the LDAP anonymous-bind probe                     *)
(* (src/ldap_anonymous_check.py) and the SNMPv1 community probe            *)
(* (src/scripts/snmp_enumrate/snmp_enum.py) as two sequential programs.    *)
(* The client libraries, the sockets and the remote server are the         *)
(* environment: every call into them returns or raises nondeterministically.*)
(***************************************************************************)
EXTENDS Integers, Sequences, FiniteSets, TLC

VARIABLES
    \* ---- ldap_anonymous_check.py ----
    pc,          \* position in main / try_anonymous_bind
    entry,       \* "main": run through main(); "call": try_anonymous_bind called directly
    use_ldaps,   \* argument use_ldaps
    starttls,    \* argument starttls
    result,      \* the result dict: success, error, metadata, timings
    conn,        \* the local conn: "None" or "Connection"
    calls,       \* the calls made into socket / ldap3, in order
    printed,     \* what main printed: "nothing", "config_error", "result"
    \* ---- snmp_enum.py ----
    spc,         \* position in main / try_pysnmp_enum / raw_udp_check
    community,   \* args.community, as a sequence of code points
    oid_i,       \* try_pysnmp_enum: number of OIDs already tried
    results,     \* try_pysnmp_enum: names of the OIDs collected
    success,     \* try_pysnmp_enum: the local success
    gets,        \* number of getCmd calls issued
    last_get,    \* how the latest GET ended, "none" before the first
    ok,          \* main: ok  ("unset", "None", "True", "False")
    payload,     \* raw_udp_check: the datagram built
    sock,        \* raw_udp_check: "none", "open", "closed"
    sent,        \* datagrams handed to sendto, in order
    recvs,       \* how each recvfrom call ended: "data", "timeout", "error"
    data,        \* raw_udp_check: the bytes received
    ok2,         \* main: ok2 ("unset", "True", "False")
    info2,       \* main: info2, the kind of detail string
    raised,      \* the exception that escaped to the interpreter, or "none"
    exit_code    \* process exit status, -1 while running

ldap_vars == <<pc, entry, use_ldaps, starttls, result, conn, calls, printed>>
snmp_vars == <<spc, community, oid_i, results, success, gets, last_get, ok, payload, sock, sent,
               recvs, data, ok2, info2, raised, exit_code>>
vars == <<ldap_vars, snmp_vars>>

(***************************************************************************)
(* Python values                                                           *)
(***************************************************************************)
\* error=None is the empty sequence; a message is a sequence of its parts
\* (the f-string's literal prefix, then the interpolated text).
None == <<>>

EmptyDict == [k \in {} |-> None]

Put(d, k, v) == [x \in (DOMAIN d) \cup {k} |-> IF x = k THEN v ELSE d[x]]

Val(t, v) == [type |-> t, v |-> v]

\* One call into socket / ldap3: the operation, its argument, how it ended
\* ("ok": returned a true value, "false": returned a false value, "raised").
Call(op, arg, out) == [op |-> op, arg |-> arg, out |-> out]

Ops(s) == {s[i].op : i \in DOMAIN s}

Count(s, op) == Cardinality({i \in DOMAIN s : s[i].op = op})

Contains(msg, part) == \E i \in DOMAIN msg : msg[i] = part

(***************************************************************************)
(* ldap_anonymous_check.py: try_anonymous_bind                             *)
(***************************************************************************)
InitResult ==
    [success |-> FALSE, error |-> None, metadata |-> EmptyDict, timings |-> {}]

Timed(r, key) == [r EXCEPT !.timings = @ \cup {key}]

WithError(r, prefix, e) == [r EXCEPT !.error = <<prefix, e>>]

WithMeta(r, k, v) == [r EXCEPT !.metadata = Put(@, k, v)]

\* The exceptions the environment may raise out of a library call.
LibErrors == {"socket.timeout", "LDAPException"}

\* The namingContexts lists a root DSE may carry.
NamingLists == {<<>>, <<"dc=a">>, <<"dc=a", "dc=b">>, <<"dc=b", "dc=a">>}

\* entry.entry_attributes_as_dict: with or without the namingContexts key
RootDSEDicts ==
    {EmptyDict} \cup {[namingContexts |-> n] : n \in NamingLists}

LdapIdle ==
    /\ pc = "off" /\ entry = "call" /\ use_ldaps = FALSE /\ starttls = FALSE
    /\ result = InitResult /\ conn = "None" /\ calls = <<>> /\ printed = "nothing"

InitLdapProbe ==
    /\ entry \in {"main", "call"}
    /\ use_ldaps \in BOOLEAN
    /\ starttls \in BOOLEAN
    /\ pc = IF entry = "main" THEN "main" ELSE "tcp"
    /\ result = InitResult
    /\ conn = "None"
    /\ calls = <<>>
    /\ printed = "nothing"

\* main, lines 180-184: the option check, then the call of try_anonymous_bind
MainValidate ==
    /\ pc = "main"
    /\ IF starttls /\ use_ldaps
         THEN /\ printed' = "config_error"
              /\ pc' = "exit"
         ELSE /\ printed' = printed
              /\ pc' = "tcp"
    /\ UNCHANGED <<snmp_vars, entry, use_ldaps, starttls, result, conn, calls>>

\* TcpCheck without the return of line 51: the pipeline goes on after a failed connect
TcpCheck_NoReturn ==
    /\ pc = "tcp"
    /\ \/ /\ calls' = Append(calls, Call("create_connection", "host", "ok"))
          /\ result' = Timed(result, "tcp_connect_s")
       \/ \E e \in LibErrors :
            /\ calls' = Append(calls, Call("create_connection", "host", "raised"))
            /\ result' = Timed(WithError(result, "TCP connection failed: ", e), "total_s")
    /\ pc' = "server"
    /\ UNCHANGED <<snmp_vars, entry, use_ldaps, starttls, conn, printed>>

\* lines 40-51: the TCP check; a failure returns at once
TcpCheck ==
    /\ pc = "tcp"
    /\ \/ /\ calls' = Append(calls, Call("create_connection", "host", "ok"))
          /\ result' = Timed(result, "tcp_connect_s")
          /\ pc' = "server"
       \/ \E e \in LibErrors :
            /\ calls' = Append(calls, Call("create_connection", "host", "raised"))
            /\ result' = Timed(WithError(result, "TCP connection failed: ", e), "total_s")
            /\ pc' = "return"
    /\ UNCHANGED <<snmp_vars, entry, use_ldaps, starttls, conn, printed>>

\* ServerCreate without line 57: the failure return carries no total_s
ServerCreate_NoTotal ==
    /\ pc = "server"
    /\ \/ /\ calls' = Append(calls, Call("Server", "host", "ok"))
          /\ pc' = "conn"
          /\ result' = result
       \/ \E e \in LibErrors :
            /\ calls' = Append(calls, Call("Server", "host", "raised"))
            /\ result' = WithError(result, "Server object creation failed: ", e)
            /\ pc' = "return"
    /\ UNCHANGED <<snmp_vars, entry, use_ldaps, starttls, conn, printed>>

\* lines 53-58: the Server object
ServerCreate ==
    /\ pc = "server"
    /\ \/ /\ calls' = Append(calls, Call("Server", "host", "ok"))
          /\ pc' = "conn"
          /\ result' = result
       \/ \E e \in LibErrors :
            /\ calls' = Append(calls, Call("Server", "host", "raised"))
            /\ result' = Timed(WithError(result, "Server object creation failed: ", e), "total_s")
            /\ pc' = "return"
    /\ UNCHANGED <<snmp_vars, entry, use_ldaps, starttls, conn, printed>>

\* lines 141-142: the handler of the try block that starts at line 61
ExceptLdap(r, e) == WithError(r, "Exception during LDAP operations: ", e)

\* lines 60-66: conn = None, then the Connection object
ConnCreate ==
    /\ pc = "conn"
    /\ \/ /\ calls' = Append(calls, Call("Connection", "ANONYMOUS", "ok"))
          /\ conn' = "Connection"
          /\ pc' = "open"
          /\ result' = result
       \/ \E e \in LibErrors :
            /\ calls' = Append(calls, Call("Connection", "ANONYMOUS", "raised"))
            /\ conn' = "None"
            /\ result' = ExceptLdap(result, e)
            /\ pc' = "finally"
    /\ UNCHANGED <<snmp_vars, entry, use_ldaps, starttls, printed>>

\* Open without the raise of line 69: a false conn.open() goes on to the next phase
Open_IgnoresFalse ==
    /\ pc = "open"
    /\ \/ /\ calls' = Append(calls, Call("open", "", "ok"))
          /\ pc' = (IF starttls THEN "starttls" ELSE "bind")
          /\ result' = result
       \/ /\ calls' = Append(calls, Call("open", "", "false"))
          /\ pc' = (IF starttls THEN "starttls" ELSE "bind")
          /\ result' = result
       \/ \E e \in LibErrors :
            /\ calls' = Append(calls, Call("open", "", "raised"))
            /\ result' = ExceptLdap(result, e)
            /\ pc' = "finally"
    /\ UNCHANGED <<snmp_vars, entry, use_ldaps, starttls, conn, printed>>

\* lines 68-72: conn.open(), then the branch on starttls
Open ==
    /\ pc = "open"
    /\ \/ /\ calls' = Append(calls, Call("open", "", "ok"))
          /\ pc' = (IF starttls THEN "starttls" ELSE "bind")
          /\ result' = result
       \/ /\ calls' = Append(calls, Call("open", "", "false"))
          /\ result' = ExceptLdap(result, "Failed to open connection to server")
          /\ pc' = "finally"
       \/ \E e \in LibErrors :
            /\ calls' = Append(calls, Call("open", "", "raised"))
            /\ result' = ExceptLdap(result, e)
            /\ pc' = "finally"
    /\ UNCHANGED <<snmp_vars, entry, use_ldaps, starttls, conn, printed>>

\* lines 72-77: the StartTLS branch
StartTLS ==
    /\ pc = "starttls"
    /\ IF use_ldaps
         THEN /\ calls' = calls
              /\ result' = ExceptLdap(result,
                    "Cannot use StartTLS when using LDAPS (use one or the other).")
              /\ pc' = "finally"
         ELSE \/ /\ calls' = Append(calls, Call("start_tls", "", "ok"))
                 /\ pc' = "bind"
                 /\ result' = result
              \/ /\ calls' = Append(calls, Call("start_tls", "", "false"))
                 /\ result' = [result EXCEPT !.error =
                       <<"Exception during LDAP operations: ", "StartTLS failed: ", "last_error">>]
                 /\ pc' = "finally"
              \/ \E e \in LibErrors :
                   /\ calls' = Append(calls, Call("start_tls", "", "raised"))
                   /\ result' = ExceptLdap(result, e)
                   /\ pc' = "finally"
    /\ UNCHANGED <<snmp_vars, entry, use_ldaps, starttls, conn, printed>>

\* BindRefused reported the way an exception of the try block is
BindRefused_AsFault(r) ==
    [r EXCEPT !.error = <<"Exception during LDAP operations: ", "conn.result">>]

\* lines 80-83: the server refused the bind
BindRefused(r) ==
    [r EXCEPT !.success = FALSE, !.error = <<"Bind failed: ", "conn.result">>]

\* lines 84-86: the server accepted the bind
BindAccepted(r) == [r EXCEPT !.success = TRUE]

\* lines 80-86: conn.bind()
Bind ==
    /\ pc = "bind"
    /\ \/ /\ calls' = Append(calls, Call("bind", "", "false"))
          /\ result' = BindRefused(result)
          /\ pc' = "bind_end"
       \/ /\ calls' = Append(calls, Call("bind", "", "ok"))
          /\ result' = BindAccepted(result)
          /\ pc' = "server_info"
       \/ \E e \in LibErrors :
            /\ calls' = Append(calls, Call("bind", "", "raised"))
            /\ result' = ExceptLdap(result, e)
            /\ pc' = "finally"
    /\ UNCHANGED <<snmp_vars, entry, use_ldaps, starttls, conn, printed>>

\* lines 88-103: server info. server.info is empty, converts with to_dict,
\* falls back to the string summary, or the fallback raises too.
ServerInfoStep(r, outcome) ==
    CASE outcome = "no_info"  -> WithMeta(r, "server_info", Val("dict", "empty"))
      [] outcome = "to_dict"  -> WithMeta(r, "server_info", Val("dict", "to_dict"))
      [] outcome = "fallback" -> WithMeta(r, "server_info", Val("dict", "schema+name"))
      [] outcome = "raised"   -> WithMeta(r, "server_info_error", Val("str", "e"))

ServerInfo ==
    /\ pc = "server_info"
    /\ \E outcome \in {"no_info", "to_dict", "fallback", "raised"} :
         /\ calls' = Append(calls, Call("server.info", "",
                        IF outcome = "raised" THEN "raised" ELSE "ok"))
         /\ result' = ServerInfoStep(result, outcome)
    /\ pc' = "rootdse"
    /\ UNCHANGED <<snmp_vars, entry, use_ldaps, starttls, conn, printed>>

\* RootDSEExcept with a bare pass: the failure leaves no key
RootDSEExcept_Pass(r, e) == r

\* The arguments of conn.search: lines 108-109 and 127-128. size_limit 0 is
\* ldap3's default, no limit.
SearchArgs(base, attributes, size_limit) ==
    [base |-> base, filter |-> "(objectClass=*)", scope |-> "BASE",
     attributes |-> attributes, size_limit |-> size_limit]

\* lines 108-109: the root-DSE search
RootSearchArgs ==
    SearchArgs("", <<"namingContexts", "defaultNamingContext", "rootDomainNamingContext">>, 0)

\* lines 127-128: the probe of one naming context
SampleSearchArgs(base) == SearchArgs(base, <<"objectClass">>, 1)

\* lines 118-119: the handler of the root-DSE step
RootDSEExcept(r, e) == WithMeta(r, "rootDSE_error", Val("str", e))

\* lines 106-119: the root-DSE search
RootDSE ==
    /\ pc = "rootdse"
    /\ \/ \* the search is true and conn.entries[0] converts to a dict
          \E d \in RootDSEDicts :
            /\ calls' = Append(calls, Call("search", RootSearchArgs, "ok"))
            /\ result' = WithMeta(result, "rootDSE", Val("dict", d))
       \/ \* entry_attributes_as_dict raises: str(entry) is stored
          /\ calls' = Append(calls, Call("search", RootSearchArgs, "ok"))
          /\ result' = WithMeta(result, "rootDSE", Val("str", "str(entry)"))
       \/ \* the search is true, conn.entries is empty: IndexError;
          \* or both conversions of the entry raise
          \E e \in {"list index out of range", "str(entry) raised"} :
            /\ calls' = Append(calls, Call("search", RootSearchArgs, "ok"))
            /\ result' = RootDSEExcept(result, e)
       \/ /\ calls' = Append(calls, Call("search", RootSearchArgs, "false"))
          /\ result' = WithMeta(result, "rootDSE_search_result", Val("dict", "conn.result"))
       \/ \E e \in LibErrors :
            /\ calls' = Append(calls, Call("search", RootSearchArgs, "raised"))
            /\ result' = RootDSEExcept(result, e)
    /\ pc' = "sample"
    /\ UNCHANGED <<snmp_vars, entry, use_ldaps, starttls, conn, printed>>

\* line 123: result["metadata"].get("rootDSE", {})
RootDSEOf(md) ==
    IF "rootDSE" \in DOMAIN md THEN md["rootDSE"] ELSE Val("dict", EmptyDict)

\* line 123: .get("namingContexts", []) of a dict
NamingOf(d) ==
    IF "namingContexts" \in DOMAIN d THEN d.namingContexts ELSE <<>>

\* lines 129-130: the sample entry was found
SampleFound(r, base) ==
    WithMeta(WithMeta(r, "sample_base_found", Val("bool", TRUE)),
             "sample_base", Val("str", base))

\* SampleNotFound leaving no trace of the probe
SampleNotFound_Silent(r, base) == r

\* lines 131-132: the sample entry was not found
SampleNotFound(r, base) == WithMeta(r, "sample_base_found", Val("bool", FALSE))

\* SampleExcept escalating to the top-level error
SampleExcept_Escalate(r, e) ==
    [r EXCEPT !.error = <<"Exception during LDAP operations: ", e>>]

\* lines 135-136: the handler of the sample step
SampleExcept(r, e) == WithMeta(r, "sample_base_error", Val("str", e))

\* lines 122-136: the probe of the first naming context
SampleBase ==
    /\ pc = "sample"
    /\ LET root == RootDSEOf(result.metadata) IN
       IF root.type # "dict"
         THEN \* str has no .get: AttributeError
              /\ calls' = calls
              /\ result' = SampleExcept(result, "'str' object has no attribute 'get'")
         ELSE LET naming == NamingOf(root.v) IN
              IF naming # <<>>
                THEN \/ /\ calls' = Append(calls, Call("search", SampleSearchArgs(naming[1]), "ok"))
                        /\ result' = SampleFound(result, naming[1])
                     \/ /\ calls' = Append(calls, Call("search", SampleSearchArgs(naming[1]), "false"))
                        /\ result' = SampleNotFound(result, naming[1])
                     \/ \E e \in LibErrors :
                          /\ calls' = Append(calls, Call("search", SampleSearchArgs(naming[1]), "raised"))
                          /\ result' = SampleExcept(result, e)
                ELSE /\ calls' = calls
                     /\ result' = WithMeta(result, "namingContexts_missing", Val("bool", TRUE))
    /\ pc' = "bind_end"
    /\ UNCHANGED <<snmp_vars, entry, use_ldaps, starttls, conn, printed>>

\* BindEnd with lines 138-139 indented into the refused branch
BindEnd_OnlyOnRefusal ==
    /\ pc = "bind_end"
    /\ result' = (IF result.success THEN result ELSE Timed(result, "bind_s"))
    /\ pc' = "finally"
    /\ UNCHANGED <<snmp_vars, entry, use_ldaps, starttls, conn, calls, printed>>

\* lines 138-139: the bind-phase timing, after either branch of the bind
BindEnd ==
    /\ pc = "bind_end"
    /\ result' = Timed(result, "bind_s")
    /\ pc' = "finally"
    /\ UNCHANGED <<snmp_vars, entry, use_ldaps, starttls, conn, calls, printed>>

\* UnbindRaised writing the cleanup failure over the primary result
UnbindRaised_Overwrite(r, e) ==
    [r EXCEPT !.success = FALSE, !.error = <<"Exception during LDAP operations: ", e>>]

\* lines 146-148: an exception of unbind is swallowed
UnbindRaised(r, e) == r

\* lines 143-149: the finally block (a Connection object is true: `if conn`
\* is the test conn is not None)
Finally ==
    /\ pc = "finally"
    /\ IF conn # "None"
         THEN \/ /\ calls' = Append(calls, Call("unbind", "", "ok"))
                 /\ result' = Timed(result, "total_s")
              \/ \E e \in LibErrors :
                   /\ calls' = Append(calls, Call("unbind", "", "raised"))
                   /\ result' = Timed(UnbindRaised(result, e), "total_s")
         ELSE /\ calls' = calls
              /\ result' = Timed(result, "total_s")
    /\ pc' = "return"
    /\ UNCHANGED <<snmp_vars, entry, use_ldaps, starttls, conn, printed>>

\* lines 51, 58, 151: return result; main (lines 184-207) prints it
Return ==
    /\ pc = "return"
    /\ printed' = (IF entry = "main" THEN "result" ELSE printed)
    /\ pc' = "exit"
    /\ UNCHANGED <<snmp_vars, entry, use_ldaps, starttls, result, conn, calls>>

NextLdap ==
    \/ MainValidate
    \/ TcpCheck
    \/ ServerCreate
    \/ ConnCreate
    \/ Open
    \/ StartTLS
    \/ Bind
    \/ ServerInfo
    \/ RootDSE
    \/ SampleBase
    \/ BindEnd
    \/ Finally
    \/ Return

(***************************************************************************)
(* snmp_enum.py                                                            *)
(***************************************************************************)
\* Longest community of the exhaustive part of the input set
MaxCommLen == 2

\* Longest reply of the exhaustive part of the reply set
MaxReplyLen == 4

\* Code points of the short communities: BEL, "a", e-acute
CommunityChars == {7, 97, 233}

\* Lengths around the limits of the one-byte length fields
LongLens == {92, 93, 127, 128, 220, 221, 255, 256}

\* "public", the default community (line 111)
Public == <<112, 117, 98, 108, 105, 99>>

Communities ==
    UNION {[1..n -> CommunityChars] : n \in 0..MaxCommLen}
      \cup {Public}
      \cup {[i \in 1..n |-> 97] : n \in LongLens}

ReplyBytes == {0, 7, 97}

\* A 40-byte GetResponse that carries the community "public"
PublicReply ==
    <<48, 38, 2, 1, 0, 4, 6>> \o Public \o
    <<162, 25, 2, 4, 14, 179, 118, 244, 2, 1, 0, 2, 1, 0,
      48, 11, 48, 9, 6, 5, 43, 6, 1, 2, 1, 5, 0>>

Replies ==
    UNION {[1..n -> ReplyBytes] : n \in 0..MaxReplyLen} \cup {PublicReply}

\* str.encode('utf-8') of one code point
Utf8(cp) ==
    IF cp < 128 THEN <<cp>>
    ELSE IF cp < 2048 THEN <<192 + (cp \div 64), 128 + (cp % 64)>>
    ELSE <<224 + (cp \div 4096), 128 + ((cp \div 64) % 64), 128 + (cp % 64)>>

\* lines 71, 100: community.encode('utf-8')
\* (the concatenation of the code points' encodings, computed by halves)
RECURSIVE Encode(_)
Encode(str) ==
    IF str = <<>> THEN <<>>
    ELSE IF Len(str) = 1 THEN Utf8(str[1])
    ELSE LET h == Len(str) \div 2 IN
         Encode(SubSeq(str, 1, h)) \o Encode(SubSeq(str, h + 1, Len(str)))

\* line 70: suffix_hex, one hexadecimal digit per element
suffix_hex ==
    <<10,0, 1,12, 0,2, 0,4, 0,14, 11,3, 7,6, 15,4, 0,2, 0,1, 0,0, 0,2, 0,1, 0,0,
      3,0, 0,14, 3,0, 0,12, 0,6, 0,8, 2,11, 0,6, 0,1, 0,2, 0,1, 0,1, 0,5, 0,0,
      0,5, 0,0>>

\* line 73: bytes.fromhex
FromHex(h) == [i \in 1..(Len(h) \div 2) |-> 16 * h[2 * i - 1] + h[2 * i]]

\* bytes([n]) raises ValueError unless n is in range(0, 256)
IsByte(n) == 0 <= n /\ n < 256

\* Inner without the OCTET STRING tag of line 78
Inner_NoOctetTag(community_bytes) ==
    <<2, 1, 0>> \o <<Len(community_bytes)>> \o community_bytes \o FromHex(suffix_hex)

\* lines 76-80: inner
Inner(community_bytes) ==
    <<2, 1, 0>> \o <<4, Len(community_bytes)>> \o community_bytes \o FromHex(suffix_hex)

\* lines 71-82: does the packet construction raise ValueError?
BuildRaises(comm) ==
    \/ ~IsByte(Len(Encode(comm)))
    \/ ~IsByte(Len(Inner(Encode(comm))))

\* BuildPayload taking total_len before the fixed tail is appended
BuildPayload_LenBeforeTail(comm) ==
    LET inner == Inner(Encode(comm)) IN
    <<48, Len(inner) - Len(FromHex(suffix_hex))>> \o inner

\* lines 71-82: payload
BuildPayload(comm) ==
    LET inner == Inner(Encode(comm)) IN <<48, Len(inner)>> \o inner

\* line 96: ch if 32 <= ch < 127 else '.'; ch is an int, and str.join
\* raises TypeError on an item that is not a str
IsPrintable(b) == 32 <= b /\ b < 127

JoinRaises(d) == \E i \in DOMAIN d : IsPrintable(d[i])

Printable(d) == [i \in DOMAIN d |-> 46]

\* line 97: re.findall(r'[ -~]{4,}', printable): the maximal runs of four
\* or more characters of ' '..'~', left to right
RECURSIVE RunsFrom(_, _, _)
RunsFrom(p, i, run) ==
    IF i > Len(p)
      THEN (IF Len(run) >= 4 THEN <<run>> ELSE <<>>)
      ELSE IF IsPrintable(p[i])
             THEN RunsFrom(p, i + 1, Append(run, p[i]))
             ELSE (IF Len(run) >= 4 THEN <<run>> ELSE <<>>) \o RunsFrom(p, i + 1, <<>>)

Runs(p) == RunsFrom(p, 1, <<>>)

\* line 100: community.encode() in data
IsSubBytes(c, d) ==
    \E k \in 0..(Len(d) - Len(c)) : \A j \in 1..Len(c) : d[k + j] = c[j]

\* lines 100-105: the outcome pair, by the kind of its detail string
Classify(comm, d) ==
    IF IsSubBytes(Encode(comm), d) THEN <<"True", "contains community">>
    ELSE IF Runs(Printable(d)) # <<>> THEN <<"True", "no community string visible">>
    ELSE <<"False", "no printable content">>

\* The six entries of oids, lines 27-34
oids == <<"sysDescr", "sysObjectID", "sysUpTime", "sysContact", "sysName", "sysLocation">>

SnmpIdle ==
    /\ spc = "off" /\ community = <<>> /\ oid_i = 0 /\ results = {} /\ gets = 0 /\ last_get = "none"
    /\ success = FALSE
    /\ ok = "unset" /\ payload = <<>> /\ sock = "none" /\ sent = <<>> /\ recvs = <<>>
    /\ data = <<>> /\ ok2 = "unset" /\ info2 = "unset" /\ raised = "none"
    /\ exit_code = -1

InitSnmpProbe ==
    /\ community \in Communities
    /\ spc = "import"
    /\ oid_i = 0 /\ results = {} /\ gets = 0 /\ success = FALSE /\ last_get = "none"
    /\ ok = "unset" /\ payload = <<>> /\ sock = "none" /\ sent = <<>> /\ recvs = <<>>
    /\ data = <<>> /\ ok2 = "unset" /\ info2 = "unset" /\ raised = "none"
    /\ exit_code = -1

\* lines 18-24, 36-37: the import of pysnmp.hlapi
Import ==
    /\ spc = "import"
    /\ \/ /\ ok' = "None"
          /\ spc' = "main_ok"
       \/ /\ ok' = ok
          /\ spc' = "loop"
    /\ UNCHANGED <<ldap_vars, last_get, community, oid_i, results, success, gets, payload,
                   sock, sent, recvs, data, ok2, info2, raised, exit_code>>

\* lines 48-58: how one GET may end: a variable binding with its value, a
\* response without error and without variable binding, an error indication,
\* an error status, an exception
GetOutcomes == {"value", "no_varbinds", "errorIndication", "errorStatus", "exception"}

\* GetOid with a break in place of the continue of lines 51, 53 and 58
GetOid_BreakOnError ==
    /\ spc = "loop"
    /\ oid_i < Len(oids)
    /\ gets' = gets + 1
    /\ \E outcome \in GetOutcomes :
         /\ last_get' = outcome
         /\ IF outcome = "value"
              THEN results' = results \cup {oids[oid_i + 1]} /\ success' = TRUE
              ELSE results' = results /\ success' = success
         /\ oid_i' = (IF outcome \in {"value", "no_varbinds"} THEN oid_i + 1 ELSE Len(oids))
    /\ UNCHANGED <<ldap_vars, spc, community, ok, payload, sock, sent, recvs, data,
                   ok2, info2, raised, exit_code>>

\* lines 39-58: one GET; how the call ended decides what is collected
GetOid ==
    /\ spc = "loop"
    /\ oid_i < Len(oids)
    /\ gets' = gets + 1
    /\ \E outcome \in GetOutcomes :
         /\ last_get' = outcome
         /\ IF outcome = "value"
              THEN results' = results \cup {oids[oid_i + 1]} /\ success' = TRUE
              ELSE results' = results /\ success' = success
    /\ oid_i' = oid_i + 1
    /\ UNCHANGED <<ldap_vars, spc, community, ok, payload, sock, sent, recvs, data,
                   ok2, info2, raised, exit_code>>

\* lines 60-64: the outcome of try_pysnmp_enum
LoopEnd ==
    /\ spc = "loop"
    /\ oid_i = Len(oids)
    /\ ok' = (IF success THEN "True" ELSE "False")
    /\ spc' = "main_ok"
    /\ UNCHANGED <<ldap_vars, last_get, community, oid_i, results, success, gets, payload,
                   sock, sent, recvs, data, ok2, info2, raised, exit_code>>

\* MainAfterLibrary taking the unavailable library (None) for a failed probe
MainAfterLibrary_NoneIsFailure ==
    /\ spc = "main_ok"
    /\ IF ok = "True"
         THEN exit_code' = 0 /\ spc' = "exit"
         ELSE IF ok = "None"
                THEN exit_code' = 2 /\ spc' = "exit"
                ELSE exit_code' = exit_code /\ spc' = "raw_build"
    /\ UNCHANGED <<ldap_vars, last_get, community, oid_i, results, success, gets, ok,
                   payload, sock, sent, recvs, data, ok2, info2, raised>>

\* lines 117-126: main after the library probe
MainAfterLibrary ==
    /\ spc = "main_ok"
    /\ IF ok = "True"
         THEN exit_code' = 0 /\ spc' = "exit"
         ELSE exit_code' = exit_code /\ spc' = "raw_build"
    /\ UNCHANGED <<ldap_vars, last_get, community, oid_i, results, success, gets, ok, payload,
                   sock, sent, recvs, data, ok2, info2, raised>>

\* lines 70-82: the packet; a ValueError here is caught nowhere
RawBuild ==
    /\ spc = "raw_build"
    /\ IF BuildRaises(community)
         THEN /\ raised' = "ValueError"
              /\ exit_code' = 1
              /\ spc' = "exit"
              /\ payload' = payload
         ELSE /\ payload' = BuildPayload(community)
              /\ spc' = "raw_socket"
              /\ UNCHANGED <<raised, exit_code>>
    /\ UNCHANGED <<ldap_vars, last_get, community, oid_i, results, success, gets, ok,
                   sock, sent, recvs, data, ok2, info2>>

\* lines 84-85: the socket, created outside the try block
RawSocket ==
    /\ spc = "raw_socket"
    /\ \/ /\ sock' = "open"
          /\ spc' = "raw_send"
          /\ UNCHANGED <<raised, exit_code>>
       \/ /\ raised' = "OSError"
          /\ exit_code' = 1
          /\ spc' = "exit"
          /\ sock' = sock
    /\ UNCHANGED <<ldap_vars, last_get, community, oid_i, results, success, gets, ok, payload,
                   sent, recvs, data, ok2, info2>>

\* lines 86-87, 91-94: sendto
RawSend ==
    /\ spc = "raw_send"
    /\ \/ /\ sent' = Append(sent, payload)
          /\ spc' = "raw_recv"
          /\ UNCHANGED <<sock, ok2, info2>>
       \/ /\ sent' = sent
          /\ sock' = "closed"
          /\ ok2' = "False"
          /\ info2' = "socket error"
          /\ spc' = "main_ok2"
    /\ UNCHANGED <<ldap_vars, last_get, community, oid_i, results, success, gets, ok, payload,
                   recvs, data, raised, exit_code>>

\* RawRecv closing the socket after a reply only, not in a finally block
RawRecv_NoCloseOnTimeout ==
    /\ spc = "raw_recv"
    /\ \/ \E d \in Replies :
            /\ data' = d
            /\ recvs' = Append(recvs, "data")
            /\ spc' = "raw_classify"
            /\ sock' = "closed"
            /\ UNCHANGED <<ok2, info2>>
       \/ /\ recvs' = Append(recvs, "timeout")
          /\ ok2' = "False"
          /\ info2' = "no response (timeout)"
          /\ spc' = "main_ok2"
          /\ UNCHANGED <<data, sock>>
       \/ /\ recvs' = Append(recvs, "error")
          /\ ok2' = "False"
          /\ info2' = "socket error"
          /\ spc' = "main_ok2"
          /\ UNCHANGED <<data, sock>>
    /\ UNCHANGED <<ldap_vars, last_get, community, oid_i, results, success, gets, ok,
                   payload, sent, raised, exit_code>>

\* lines 88-94: recvfrom, the two handlers, and the finally block
RawRecv ==
    /\ spc = "raw_recv"
    /\ sock' = "closed"
    /\ \/ \E d \in Replies :
            /\ data' = d
            /\ recvs' = Append(recvs, "data")
            /\ spc' = "raw_classify"
            /\ UNCHANGED <<ok2, info2>>
       \/ /\ recvs' = Append(recvs, "timeout")
          /\ ok2' = "False"
          /\ info2' = "no response (timeout)"
          /\ spc' = "main_ok2"
          /\ data' = data
       \/ /\ recvs' = Append(recvs, "error")
          /\ ok2' = "False"
          /\ info2' = "socket error"
          /\ spc' = "main_ok2"
          /\ data' = data
    /\ UNCHANGED <<ldap_vars, last_get, community, oid_i, results, success, gets, ok, payload,
                   sent, raised, exit_code>>

\* lines 96-105: the classification of the reply
RawClassify ==
    /\ spc = "raw_classify"
    /\ IF JoinRaises(data)
         THEN /\ raised' = "TypeError"
              /\ exit_code' = 1
              /\ spc' = "exit"
              /\ UNCHANGED <<ok2, info2>>
         ELSE /\ ok2' = Classify(community, data)[1]
              /\ info2' = Classify(community, data)[2]
              /\ spc' = "main_ok2"
              /\ UNCHANGED <<raised, exit_code>>
    /\ UNCHANGED <<ldap_vars, last_get, community, oid_i, results, success, gets, ok, payload,
                   sock, sent, recvs, data>>

\* lines 126-132: main after the raw probe
MainAfterRaw ==
    /\ spc = "main_ok2"
    /\ exit_code' = (IF ok2 = "True" THEN 0 ELSE 2)
    /\ spc' = "exit"
    /\ UNCHANGED <<ldap_vars, last_get, community, oid_i, results, success, gets, ok, payload,
                   sock, sent, recvs, data, ok2, info2, raised>>

NextSnmp ==
    \/ Import
    \/ GetOid
    \/ LoopEnd
    \/ MainAfterLibrary
    \/ RawBuild
    \/ RawSocket
    \/ RawSend
    \/ RawRecv
    \/ RawClassify
    \/ MainAfterRaw

(***************************************************************************)
(* The two programs                                                        *)
(***************************************************************************)
InitLdap == InitLdapProbe /\ SnmpIdle

SpecLdap == InitLdap /\ [][NextLdap]_vars

InitSnmp == InitSnmpProbe /\ LdapIdle

SpecSnmp == InitSnmp /\ [][NextSnmp]_vars

(***************************************************************************)
(* Properties of try_anonymous_bind, checked under SpecLdap                *)
(***************************************************************************)
Did(op, out) == \E i \in DOMAIN calls : calls[i].op = op /\ calls[i].out = out

\* the root-DSE search has search_base ''
RootSearch(out) ==
    \E i \in DOMAIN calls :
        calls[i].op = "search" /\ calls[i].arg.base = "" /\ calls[i].out = out

SampleSearches == {i \in DOMAIN calls : calls[i].op = "search" /\ calls[i].arg.base # ""}

\* try_anonymous_bind has returned (or is at one of its return statements)
Returned == pc \in {"return", "exit"} /\ printed # "config_error"

Keys == DOMAIN result.metadata

\* C1: when the initial TCP connect fails, the result has success=false, an
\* error containing "TCP connection failed", no bind_s timing, and the
\* connect is the only call made: no Server, Connection, open, StartTLS,
\* bind or metadata step follows, and the function is at its return.
C1_TcpFailureStops ==
    Did("create_connection", "raised") =>
        /\ result.success = FALSE
        /\ Contains(result.error, "TCP connection failed: ")
        /\ "bind_s" \notin result.timings
        /\ Len(calls) = 1
        /\ conn = "None"
        /\ result.metadata = EmptyDict
        /\ pc \in {"return", "exit"}

C1_Witness ==
    /\ pc = "exit"
    /\ calls = <<Call("create_connection", "host", "raised")>>
    /\ "total_s" \in result.timings

\* C2 as stated: after an accepted bind the returned metadata holds rootDSE
\* or rootDSE_search_result, whatever the root-DSE search did.
C2_RootDSEOrSearchResult ==
    (Did("bind", "ok") /\ Returned) =>
        /\ result.success = TRUE
        /\ ("rootDSE" \in Keys \/ "rootDSE_search_result" \in Keys)

\* C2 amended: after an accepted bind the returned result has success=true
\* and its metadata holds exactly one of rootDSE, rootDSE_search_result and
\* rootDSE_error: rootDSE_search_result when the search returned false,
\* rootDSE_error when the search raised, rootDSE or rootDSE_error when it
\* returned true (rootDSE_error for an empty or unreadable entry list).
C2_RootDSEKeyOrError ==
    (Did("bind", "ok") /\ Returned) =>
        /\ result.success = TRUE
        /\ Cardinality(Keys \cap {"rootDSE", "rootDSE_search_result", "rootDSE_error"}) = 1
        /\ RootSearch("false") => "rootDSE_search_result" \in Keys
        /\ RootSearch("raised") => "rootDSE_error" \in Keys
        /\ RootSearch("ok") => ("rootDSE" \in Keys \/ "rootDSE_error" \in Keys)

C2_Witness ==
    /\ pc = "exit"
    /\ Did("bind", "ok")
    /\ RootSearch("raised")
    /\ "rootDSE_error" \in Keys
    /\ result.success = TRUE

\* C3: with starttls and use_ldaps both set, no call into socket or ldap3 is
\* ever made (no TCP connect, no connection open) and no tcp_connect_s
\* timing is recorded.
C3_ConfigErrorBeforeSocket ==
    (starttls /\ use_ldaps) =>
        /\ calls = <<>>
        /\ "tcp_connect_s" \notin result.timings

\* C8: a refused bind (bind returned false) gives success=false, the error
\* "Bind failed: <conn.result>", empty metadata with no harvest step run,
\* and the bind_s timing; the error is not the one of the exception handler.
C8_BindRefusedIsNotAFault ==
    (Did("bind", "false") /\ Returned) =>
        /\ result.success = FALSE
        /\ result.error = <<"Bind failed: ", "conn.result">>
        /\ ~Contains(result.error, "Exception during LDAP operations: ")
        /\ result.metadata = EmptyDict
        /\ {"server.info", "search"} \cap Ops(calls) = {}
        /\ "bind_s" \in result.timings

C8_Witness ==
    /\ pc = "exit"
    /\ Did("bind", "false")
    /\ Did("unbind", "ok")
    /\ result.error = <<"Bind failed: ", "conn.result">>

\* C9: from the accepted bind on, success is true and error is null in every
\* state; in the returned result each of the three sub-steps has left its
\* key (so each ran), and a sub-step that raised has left its own error key.
C9_SubStepFailuresStayLocal ==
    Did("bind", "ok") =>
        /\ result.success = TRUE
        /\ result.error = None
        /\ Returned =>
            /\ Keys \cap {"server_info", "server_info_error"} # {}
            /\ Keys \cap {"rootDSE", "rootDSE_search_result", "rootDSE_error"} # {}
            /\ Keys \cap {"sample_base_found", "namingContexts_missing",
                          "sample_base_error"} # {}
            /\ Did("server.info", "raised") => "server_info_error" \in Keys
            /\ RootSearch("raised") => "rootDSE_error" \in Keys
            /\ (\E i \in SampleSearches : calls[i].out = "raised")
                   => "sample_base_error" \in Keys
            /\ (RootDSEOf(result.metadata).type = "str") => "sample_base_error" \in Keys

C9_Witness ==
    /\ pc = "exit"
    /\ Did("bind", "ok")
    /\ Did("server.info", "raised")
    /\ "rootDSE" \in Keys
    /\ \E i \in SampleSearches : calls[i].out = "raised"
    /\ {"server_info_error", "sample_base_error"} \subseteq Keys

\* C10: once a Connection object exists, the returned result has seen
\* exactly one unbind call; the finally block always reaches the return, and
\* it leaves success, error and metadata as they were, also when unbind raises.
C10_UnbindOnceAndSilent ==
    /\ [](Did("Connection", "ok") /\ Returned => Count(calls, "unbind") = 1)
    /\ [](Count(calls, "unbind") <= 1)
    /\ [][pc = "finally" =>
            /\ pc' = "return"
            /\ result'.success = result.success
            /\ result'.error = result.error
            /\ result'.metadata = result.metadata]_vars

C10_Witness ==
    /\ pc = "exit"
    /\ Did("unbind", "raised")
    /\ Did("bind", "ok")
    /\ result.success = TRUE
    /\ result.error = None

(***************************************************************************)
(* Properties of the SNMP tool, checked under SpecSnmp                     *)
(***************************************************************************)
\* N: the byte length of the community string
CommunityLen == Len(Encode(community))

\* a run of four or more printable bytes in the reply itself
HasPrintableRun(d) ==
    \E k \in 1..(Len(d) - 3) : \A j \in 0..3 : IsPrintable(d[k + j])

\* C4: the tool ends with exit code 0 exactly when the library probe or the
\* raw probe reported success and with 2 otherwise; with the library
\* unavailable and a reply that embeds the community, the exit code is 0.
C4_ExitCode ==
    spc = "exit" =>
        /\ exit_code \in {0, 2}
        /\ exit_code = 0 <=> (ok = "True" \/ ok2 = "True")
        /\ (ok = "None" /\ recvs = <<"data">> /\ IsSubBytes(Encode(community), data))
              => exit_code = 0

\* C5: once raw_udp_check has received a reply or timed out, its outcome is:
\* strong positive when the reply contains the community bytes; else weak
\* positive when the reply has a run of four printable characters; else the
\* negative 'no printable content'; 'no response (timeout)' for a timeout.
C5_Classification ==
    (spc \in {"main_ok2", "exit"} /\ recvs # <<>> /\ recvs[1] # "error") =>
        IF recvs[1] = "timeout"
          THEN ok2 = "False" /\ info2 = "no response (timeout)"
          ELSE IF IsSubBytes(Encode(community), data)
                 THEN ok2 = "True" /\ info2 = "contains community"
                 ELSE IF HasPrintableRun(data)
                        THEN ok2 = "True" /\ info2 = "no community string visible"
                        ELSE ok2 = "False" /\ info2 = "no printable content"

\* C6 as stated: for N < 128 the outer length byte is 3 + 2 + N + 28 and the
\* community length byte is N.
C6_OuterLength28 ==
    (payload # <<>> /\ CommunityLen < 128) =>
        /\ payload[2] = 3 + 2 + CommunityLen + 28
        /\ payload[7] = CommunityLen

\* C6 amended: for N < 128 the packet is built, its outer length byte is
\* 3 + 2 + N + 30 (the fixed tail is 30 bytes) and its community length
\* byte is N.
C6_OuterLength30 ==
    CommunityLen < 128 =>
        /\ spc \notin {"import", "loop", "main_ok", "raw_build"} /\ ok # "True"
              => payload # <<>>
        /\ payload # <<>> =>
              /\ payload[2] = 3 + 2 + CommunityLen + 30
              /\ payload[7] = CommunityLen

C6_Witness ==
    /\ sent = <<payload>>
    /\ community = <<233, 97>>
    /\ payload[7] = 3
    /\ payload[2] = 38

\* C7: every datagram sent has a community length byte and an outer length
\* byte below 128 that equal the byte counts of what they prefix; so no
\* datagram is sent for a community of 128 bytes or more, nor for one that
\* makes the message content 128 bytes or more.
C7_NoCorruptPacket ==
    \A i \in DOMAIN sent :
        /\ sent[i][7] < 128
        /\ sent[i][2] < 128
        /\ sent[i][7] = CommunityLen
        /\ sent[i][2] = Len(sent[i]) - 2

\* the OIDs tried so far
Tried == {oids[k] : k \in 1..oid_i}

\* try_pysnmp_enum has returned an outcome of the loop
LibraryRan == ok \in {"True", "False"}

\* C11 as stated: every one of the six OIDs gets its GET, succeeded is true
\* exactly when something was collected, and an OID is collected exactly
\* when its GET came back with neither error indication, error status nor
\* exception.
C11_CollectsEveryCleanGet ==
    /\ LibraryRan => (gets = 6 /\ oid_i = 6 /\ (ok = "True" <=> results # {}))
    /\ (spc = "loop" /\ oid_i > 0) =>
          (oids[oid_i] \in results <=> last_get \in {"value", "no_varbinds"})

\* C11 amended: every one of the six OIDs gets its GET whatever the earlier
\* ones did, succeeded is true exactly when at least one OID returned a
\* value, and an OID is collected exactly when its GET returned a variable
\* binding without error: each GET adds at most its own OID, and adds it
\* exactly when it returned a value.
C11_CollectsEveryValue ==
    /\ [](LibraryRan => (gets = 6 /\ oid_i = 6 /\ (ok = "True" <=> results # {})))
    /\ [](results \subseteq Tried /\ (success <=> results # {}) /\ gets = oid_i)
    /\ []((spc = "loop" /\ oid_i > 0) =>
            (oids[oid_i] \in results <=> last_get = "value"))
    /\ [][(spc = "loop" /\ oid_i < 6) =>
            /\ spc' = "loop"
            /\ oid_i' = oid_i + 1
            /\ results' \ {oids[oid_i']} = results]_vars

C11_Witness ==
    /\ ok = "True"
    /\ gets = 6
    /\ results = {"sysObjectID", "sysLocation"}
    /\ last_get = "value"
    /\ spc = "exit"

\* C12: no exception escapes raw_udp_check, whatever the community and the
\* socket do: the function always hands main an outcome pair, and the tool
\* ends with exit code 0 or 2.
C12_NoExceptionEscapes ==
    /\ raised = "none"
    /\ spc = "exit" => exit_code \in {0, 2}
    /\ (spc = "exit" /\ ok # "True") => (ok2 \in {"True", "False"} /\ info2 # "unset")

\* the fixed tail of the wire format
WireTail ==
    <<160, 28, 2, 4, 14, 179, 118, 244, 2, 1, 0, 2, 1, 0, 48, 14, 48, 12,
      6, 8, 43, 6, 1, 2, 1, 1, 5, 0, 5, 0>>

\* 30 LL 02 01 00 04 CL <community bytes> <tail>
WireFormat(cb) ==
    <<48, 3 + (2 + Len(cb)) + Len(WireTail), 2, 1, 0, 4, Len(cb)>> \o cb \o WireTail

\* raw_udp_check is past the construction of the packet
PastBuild == spc \in {"raw_socket", "raw_send", "raw_recv", "raw_classify", "main_ok2"}

\* C13: the datagram built and sent is byte for byte 30 LL 02 01 00 04 CL
\* <community bytes> <fixed tail>, CL the community byte count and LL the
\* byte count of all that follows LL; it is built for every community that
\* keeps both within one byte.
C13_WireFormat ==
    /\ (PastBuild /\ CommunityLen + 35 < 128) => payload # <<>>
    /\ payload # <<>> => payload = WireFormat(Encode(community))
    /\ \A i \in DOMAIN sent : sent[i] = WireFormat(Encode(community))

C13_Witness ==
    /\ community = Public
    /\ sent = << <<48, 41, 2, 1, 0, 4, 6, 112, 117, 98, 108, 105, 99,
                   160, 28, 2, 4, 14, 179, 118, 244, 2, 1, 0, 2, 1, 0, 48, 14,
                   48, 12, 6, 8, 43, 6, 1, 2, 1, 1, 5, 0, 5, 0>> >>

\* raw_udp_check has been entered
RawInvoked ==
    \/ spc \in {"raw_build", "raw_socket", "raw_send", "raw_recv", "raw_classify", "main_ok2"}
    \/ spc = "exit" /\ (ok2 # "unset" \/ raised # "none")

\* C15: the raw probe runs exactly when the library probe returned None or
\* False: main goes from the library outcome to exit 0 when it is True and
\* into raw_udp_check otherwise; after a successful library probe nothing of
\* the raw probe exists (no packet, no socket, no datagram); an unavailable
\* library never ends the run without the raw probe.
C15_FallbackOnlyWhenNeeded ==
    /\ [](RawInvoked => ok \in {"None", "False"})
    /\ [](ok = "True" =>
            (sent = <<>> /\ payload = <<>> /\ sock = "none" /\ recvs = <<>>))
    /\ []((spc = "exit" /\ ok \in {"None", "False"}) => RawInvoked)
    /\ [][spc = "main_ok" =>
            IF ok = "True"
              THEN spc' = "exit" /\ exit_code' = 0
              ELSE spc' = "raw_build" /\ exit_code' = -1]_vars

C15_Witness ==
    /\ ok = "None"
    /\ gets = 0
    /\ sent = <<payload>>
    /\ ok2 = "True"
    /\ exit_code = 0

\* C17: one call of raw_udp_check sends at most one datagram and receives
\* at most once, after the send; whenever it has returned an outcome, and
\* whenever the reply is being classified, the socket is closed.
C17_SingleExchangeSocketClosed ==
    /\ Len(sent) <= 1
    /\ Len(recvs) <= 1
    /\ recvs # <<>> => sent # <<>>
    /\ spc \in {"raw_classify", "main_ok2"} => sock = "closed"
    /\ ok2 # "unset" => sock = "closed"

C17_Witness ==
    /\ spc = "main_ok2"
    /\ recvs = <<"timeout">>
    /\ Len(sent) = 1
    /\ sock = "closed"
    /\ info2 = "no response (timeout)"

(***************************************************************************)
(* More properties of try_anonymous_bind, checked under SpecLdap           *)
(***************************************************************************)
\* the namingContexts of the root DSE stored in the metadata, <<>> if none
StoredNaming ==
    IF "rootDSE" \in Keys /\ result.metadata["rootDSE"].type = "dict"
      THEN NamingOf(result.metadata["rootDSE"].v)
      ELSE <<>>

\* the search of the first naming context: base scope, one attribute, size limit 1
ProbeOfFirstContext ==
    [base |-> StoredNaming[1], filter |-> "(objectClass=*)", scope |-> "BASE",
     attributes |-> <<"objectClass">>, size_limit |-> 1]

\* C14 as stated: with at least one namingContexts value, the returned
\* result has seen exactly one more search, of the first naming context, and
\* holds sample_base_found and sample_base, found or not.
C14_RecordsFlagAndName ==
    (Returned /\ StoredNaming # <<>>) =>
        /\ Cardinality(SampleSearches) = 1
        /\ \A i \in SampleSearches : calls[i].arg = ProbeOfFirstContext
        /\ {"sample_base_found", "sample_base"} \subseteq Keys
        /\ result.metadata["sample_base"].v = StoredNaming[1]

\* C14 amended: with at least one namingContexts value, exactly one more
\* search is issued, of the first naming context (base scope, one attribute,
\* size limit 1). Found: sample_base_found=true and sample_base, the context
\* probed. Not found: sample_base_found=false and no sample_base. The search
\* raised: sample_base_error and neither key. Without a namingContexts
\* value no such search is issued.
C14_RecordsNameWhenFound ==
    Returned =>
        IF StoredNaming # <<>>
          THEN /\ Cardinality(SampleSearches) = 1
               /\ \A i \in SampleSearches :
                    /\ calls[i].arg = ProbeOfFirstContext
                    /\ calls[i].out = "ok" =>
                         /\ {"sample_base_found", "sample_base"} \subseteq Keys
                         /\ result.metadata["sample_base_found"].v = TRUE
                         /\ result.metadata["sample_base"].v = StoredNaming[1]
                    /\ calls[i].out = "false" =>
                         /\ "sample_base_found" \in Keys
                         /\ result.metadata["sample_base_found"].v = FALSE
                         /\ "sample_base" \notin Keys
                    /\ calls[i].out = "raised" =>
                         /\ "sample_base_error" \in Keys
                         /\ {"sample_base_found", "sample_base"} \cap Keys = {}
          ELSE SampleSearches = {}

C14_Witness ==
    /\ pc = "exit"
    /\ StoredNaming = <<"dc=b", "dc=a">>
    /\ \E i \in SampleSearches : calls[i].out = "false" /\ calls[i].arg.base = "dc=b"
    /\ "sample_base_found" \in Keys
    /\ "sample_base" \notin Keys

\* the phases in their order, for the arguments of this call
Pipeline ==
    IF starttls
      THEN <<"create_connection", "Server", "Connection", "open", "start_tls", "bind">>
      ELSE <<"create_connection", "Server", "Connection", "open", "bind">>

\* calls are made in the order of the phases, each only after every earlier
\* phase succeeded, and the metadata harvest only after an accepted bind
PhasesInOrder ==
    \A i \in DOMAIN calls :
        /\ calls[i].op \in {"create_connection", "Server", "Connection", "open",
                            "start_tls", "bind"} =>
              /\ i <= Len(Pipeline)
              /\ calls[i].op = Pipeline[i]
              /\ \A j \in 1..(i - 1) : calls[j].out = "ok"
        /\ calls[i].op \in {"server.info", "search"} =>
              /\ i > Len(Pipeline)
              /\ \A j \in 1..Len(Pipeline) : calls[j].out = "ok"

C18_SuccessMeansNoError ==
    /\ []((Returned /\ result.success) =>
            (result.error = None /\ "bind_s" \in result.timings))
    /\ []((Returned /\ result.error # None) => ~result.success)
    /\ [][result.success => (result'.success /\ result'.error = None)]_vars

C18_Witness ==
    /\ pc = "exit"
    /\ result.success
    /\ result.error = None
    /\ "bind_s" \in result.timings
    /\ "sample_base_error" \in Keys

\* C19: every returned result has total_s; it has tcp_connect_s exactly when
\* the TCP check succeeded; it has bind_s exactly when conn.bind() returned,
\* accepted or refused, which excludes an exception in the open, StartTLS
\* and bind phase.
C19_Timings ==
    Returned =>
        /\ "total_s" \in result.timings
        /\ "tcp_connect_s" \in result.timings <=> Did("create_connection", "ok")
        /\ "bind_s" \in result.timings <=> (Did("bind", "ok") \/ Did("bind", "false"))
        /\ "bind_s" \in result.timings =>
              /\ ~Contains(result.error, "Exception during LDAP operations: ")
              /\ \A i \in DOMAIN calls :
                    calls[i].op \in {"Connection", "open", "start_tls", "bind"}
                        => calls[i].out # "raised"

C19_Witness ==
    /\ pc = "exit"
    /\ Did("bind", "raised")
    /\ result.timings = {"tcp_connect_s", "total_s"}

====
